---- MODULE Spec2Model ----
(***************************************************************************)
(* A model of two parts of IronRDP:                                        *)
(*   - crates/ironrdp-client/src/gui.rs: GuiContext::run, the winit event  *)
(*     loop closure that translates native window events into messages on  *)
(*     the input-event channel and applies protocol output events to the   *)
(*     window and the softbuffer surface;                                  *)
(*   - crates/ironrdp-server/src/builder.rs: the typestate RdpServerBuilder *)
(*     and the no-op handler and display it falls back to.                 *)
(* Floating-point values are modelled exactly: inputs are dyadic rationals *)
(* (an integer numerator over a power of two), f64 division and            *)
(* multiplication are computed on 53-bit mantissas with round-to-nearest-  *)
(* even, and `as` casts truncate toward zero and saturate.                 *)
(***************************************************************************)
EXTENDS Integers, Sequences, FiniteSets, TLC

VARIABLES
    status,            \* "running" | "exited" | "panicked": EventLoop::run
    exiting,           \* aloop.exit() has been called (winit's exit flag)
    receiver_alive,    \* the UnboundedReceiver<RdpInputEvent> still exists
    queue,             \* messages sent on input_event_sender, not yet received
    buffer_size,       \* local `buffer_size` of run
    input_database,    \* local `input_database` of run (the input state tracker)
    window,            \* the winit Window: inner_size, scale_factor, cursor_visible
    surface_size,      \* size of the softbuffer surface after the last resize
    released,          \* the values of run that are gone, in the order they went
    terminal,          \* the first terminal output event handled, or "None"
    last,              \* what the latest closure invocation did
    builder,           \* the RdpServerBuilder value currently held
    calls,             \* builder methods called so far, in order
    server,            \* the RdpServer returned by build(), or NoServer
    inputs_given,      \* events the server has handed to its input handler
    handler_state,     \* events the input handler of the server has acted on
    size_reply,        \* result of the latest display.size() query
    update_poll        \* outcome of the latest poll of display.get_update()

guiVars == <<status, exiting, receiver_alive, queue, buffer_size, input_database,
             window, surface_size, released, terminal, last>>
builderVars ==
    <<builder, calls, server, inputs_given, handler_state, size_reply, update_poll>>
vars == <<guiVars, builderVars>>

---------------------------------------------------------------------------
(* Bounds of the model *)

\* Messages the channel may hold before the receiver has to take one.
MaxQueue == 1

\* Calls of with_cliprdr_factory on one builder.
MaxFactoryCalls == 2

\* Events a server's input handler is given.
MaxHandled == 2

---------------------------------------------------------------------------
(* Integer helpers *)

Abs(n) == IF n < 0 THEN -n ELSE n

Sign(n) == IF n < 0 THEN -1 ELSE IF n > 0 THEN 1 ELSE 0

\* Quotient rounded toward zero, as a float-to-integer `as` cast rounds.
TruncDiv(n, d) == Sign(n) * (Abs(n) \div d)

Min(a, b) == IF a < b THEN a ELSE b

Max(a, b) == IF a > b THEN a ELSE b

\* Saturation of a float-to-integer `as` cast to the range lo..hi.
Saturate(n, lo, hi) == Max(lo, Min(hi, n))

U16Max == 65535

I16Max == 32767

I16Min == -32768

---------------------------------------------------------------------------
(* f64 arithmetic on bit sequences (most significant bit first).  A finite *)
(* non-zero f64 is [k |-> "fin", s, m, e]: sign s, 53-bit mantissa m with  *)
(* m[1] = 1, and value s * m * 2^e.  Subnormals and overflow do not occur  *)
(* for the magnitudes used here.                                           *)

\* Significand precision of an f64.
MantissaBits == 53

RECURSIVE IntBits(_)
IntBits(n) == IF n = 0 THEN <<>> ELSE Append(IntBits(n \div 2), n % 2)

\* The number a bit sequence denotes.
BitsInt(bits) ==
    LET val[i \in 0..Len(bits)] == IF i = 0 THEN 0 ELSE 2 * val[i - 1] + bits[i]
    IN val[Len(bits)]

AllOnes(bits) == \A i \in 1..Len(bits) : bits[i] = 1

\* bits + 1, for a sequence that is not all ones: the last 0 becomes 1 and the
\* ones after it become 0.
IncBits(bits) ==
    LET z == CHOOSE i \in 1..Len(bits) :
                 bits[i] = 0 /\ \A j \in (i + 1)..Len(bits) : bits[j] = 1
    IN [i \in 1..Len(bits) |-> IF i < z THEN bits[i] ELSE IF i = z THEN 1 ELSE 0]

F64Zero(s) == [k |-> "zero", s |-> s]
F64Inf(s) == [k |-> "inf", s |-> s]
F64NaN == [k |-> "nan"]

\* Round-to-nearest, ties-to-even, of the mantissa m (53 bits) followed by a
\* guard bit and a sticky flag; e is the exponent of m's last bit.
F64Round(s, m, guard, sticky, e) ==
    IF guard = 1 /\ (sticky \/ m[MantissaBits] = 1)
    THEN IF AllOnes(m)
         THEN [k |-> "fin", s |-> s, m |-> <<1>> \o [i \in 1..(MantissaBits - 1) |-> 0],
               e |-> e + 1]
         ELSE [k |-> "fin", s |-> s, m |-> IncBits(m), e |-> e]
    ELSE [k |-> "fin", s |-> s, m |-> m, e |-> e]

\* Scale a / d by powers of two until d <= a < 2d; q = (a / d) * 2^e.
RECURSIVE Normalise(_, _, _)
Normalise(a, d, e) ==
    IF a >= 2 * d THEN Normalise(a, 2 * d, e + 1)
    ELSE IF a < d THEN Normalise(2 * a, d, e - 1)
    ELSE [a |-> a, d |-> d, e |-> e]

\* k bits of the binary fraction r / d (r < d), by long division, and the
\* remainder left over.
DivFrac(r, d, k) ==
    LET rem[i \in 0..k] == IF i = 0 THEN r ELSE (2 * rem[i - 1]) % d
    IN [bits |-> [i \in 1..k |-> (2 * rem[i - 1]) \div d], rem |-> rem[k]]

\* The f64 nearest to n / d, for integers n # 0 and d > 0.
F64Quotient(n, d) ==
    LET nm == Normalise(Abs(n), d, 0)
        fr == DivFrac(nm.a - nm.d, nm.d, MantissaBits)
        m == <<1>> \o SubSeq(fr.bits, 1, MantissaBits - 1)
    IN F64Round(Sign(n), m, fr.bits[MantissaBits], fr.rem # 0,
                nm.e - (MantissaBits - 1))

\* bits * b for an integer b >= 1, by schoolbook multiplication from the least
\* significant bit: carry[i] is the carry out of bit i.
MulBits(bits, b) ==
    LET n == Len(bits)
        carry[i \in 1..(n + 1)] ==
            IF i = n + 1 THEN 0 ELSE (bits[i] * b + carry[i + 1]) \div 2
    IN IntBits(carry[1]) \o [i \in 1..n |-> (bits[i] * b + carry[i + 1]) % 2]

\* The f64 nearest to f * b, for a finite non-zero f and an integer b >= 1.
F64TimesInt(f, b) ==
    LET full == MulBits(f.m, b)
        extra == Len(full) - MantissaBits
        nextBit == IF extra >= 1 THEN full[MantissaBits + 1] ELSE 0
        lowerBits == \E i \in (MantissaBits + 2)..Len(full) : full[i] = 1
    IN F64Round(f.s, SubSeq(full, 1, MantissaBits), nextBit, lowerBits, f.e + extra)

\* x / (w as f64), where x = n / den is a dyadic rational (den a power of two, so
\* x is an exact f64 and dividing n by den * w rounds once, like x / w does) and w
\* is an unsigned integer.
F64Div(n, den, w) ==
    IF w = 0 THEN (IF n = 0 THEN F64NaN ELSE F64Inf(Sign(n)))
    ELSE IF n = 0 THEN F64Zero(1)
    ELSE F64Quotient(n, den * w)

\* f * (b as f64) for an unsigned integer b.
F64Mul(f, b) ==
    CASE f.k = "nan" -> F64NaN
      [] f.k = "inf" -> IF b = 0 THEN F64NaN ELSE f
      [] f.k = "zero" -> f
      [] OTHER -> IF b = 0 THEN F64Zero(f.s) ELSE F64TimesInt(f, b)

\* `f as u16`: NaN is 0, the fraction is dropped, out-of-range values saturate.
F64AsU16(f) ==
    CASE f.k = "nan" -> 0
      [] f.k = "zero" -> 0
      [] f.k = "inf" -> IF f.s > 0 THEN U16Max ELSE 0
      [] OTHER ->
           LET intBits == MantissaBits + f.e IN
           IF f.s < 0 \/ intBits <= 0 THEN 0
           ELSE IF intBits > 16 THEN U16Max
           ELSE BitsInt(SubSeq(f.m, 1, intBits))

---------------------------------------------------------------------------
(* Values of the input side *)

\* Denominators of the dyadic rationals that stand for floating-point inputs:
\* cursor positions are in quarters of a pixel, scale factors in quarters, wheel
\* deltas in 1/1024.  All of them, and the products by 100 taken below, are exact
\* in f32 and f64.
PosDen == 2 ^ 2
ScaleDen == 2 ^ 2
DeltaDen == 2 ^ 10

\* physical_key.to_scancode(): None, or Some(scancode)
NoScancode == [some |-> FALSE]
SomeScancode(v) == [some |-> TRUE, v |-> v]

\* Scancode::from_u16: the extended flag is set when the top three bits are,
\* the code is the low byte.
Scancode_from_u16(v) == [extended |-> (v \div 8192) = 7, code |-> v % 256]

Scancode_from_u8(extended, code) == [extended |-> extended, code |-> code]

SHIFT_LEFT == Scancode_from_u8(FALSE, 42)
CONTROL_LEFT == Scancode_from_u8(FALSE, 29)
ALT_LEFT == Scancode_from_u8(FALSE, 56)
LOGO_LEFT == Scancode_from_u8(TRUE, 91)

KeyPressed(scancode) == [op |-> "KeyPressed", scancode |-> scancode]
KeyReleased(scancode) == [op |-> "KeyReleased", scancode |-> scancode]
MouseMove(x, y) == [op |-> "MouseMove", x |-> x, y |-> y]
MouseButtonPressed(button) == [op |-> "MouseButtonPressed", button |-> button]
MouseButtonReleased(button) == [op |-> "MouseButtonReleased", button |-> button]
WheelRotations(is_vertical, rotation_units) ==
    [op |-> "WheelRotations", is_vertical |-> is_vertical,
     rotation_units |-> rotation_units]

\* MouseButton::from_native_button: 8 and 9 are the two extra buttons.
NoButton == "NoButton"
from_native_button(native_button) ==
    CASE native_button = 8 -> "X1"
      [] native_button = 9 -> "X2"
      [] OTHER -> NoButton

\* RdpInputEvent
ResizeMsg(width, height, scale_factor) ==
    [type |-> "Resize", width |-> width, height |-> height,
     scale_factor |-> scale_factor, physical_size |-> "None"]
CloseMsg == [type |-> "Close"]
FastPathMsg(input_events) == [type |-> "FastPath", events |-> input_events]

---------------------------------------------------------------------------
(* The input state tracker, ironrdp::input::Database: it remembers which    *)
(* keys and buttons are down and where the pointer is, and turns a batch of *)
(* operations into the fast-path events that change that state.             *)

Database_new == [keys |-> {}, buttons |-> {}, pos |-> <<0, 0>>]

KeyEvent(scancode, release) ==
    [t |-> "Key", release |-> release, extended |-> scancode.extended,
     code |-> scancode.code]

ApplyOne(db, operation) ==
    CASE operation.op = "KeyPressed" ->
           [db |-> [db EXCEPT !.keys = @ \cup {operation.scancode}],
            events |-> (IF operation.scancode \in db.keys
                        THEN <<KeyEvent(operation.scancode, TRUE)>> ELSE <<>>)
                       \o <<KeyEvent(operation.scancode, FALSE)>>]
      [] operation.op = "KeyReleased" ->
           [db |-> [db EXCEPT !.keys = @ \ {operation.scancode}],
            events |-> IF operation.scancode \in db.keys
                       THEN <<KeyEvent(operation.scancode, TRUE)>> ELSE <<>>]
      [] operation.op = "MouseButtonPressed" ->
           [db |-> [db EXCEPT !.buttons = @ \cup {operation.button}],
            events |-> IF operation.button \in db.buttons THEN <<>>
                       ELSE <<[t |-> "Button", button |-> operation.button,
                               down |-> TRUE]>>]
      [] operation.op = "MouseButtonReleased" ->
           [db |-> [db EXCEPT !.buttons = @ \ {operation.button}],
            events |-> IF operation.button \in db.buttons
                       THEN <<[t |-> "Button", button |-> operation.button,
                               down |-> FALSE]>>
                       ELSE <<>>]
      [] operation.op = "MouseMove" ->
           [db |-> [db EXCEPT !.pos = <<operation.x, operation.y>>],
            events |-> IF db.pos = <<operation.x, operation.y>> THEN <<>>
                       ELSE <<[t |-> "Move", x |-> operation.x, y |-> operation.y]>>]
      [] operation.op = "WheelRotations" ->
           [db |-> db,
            events |-> <<[t |-> "Wheel", vertical |-> operation.is_vertical,
                          units |-> operation.rotation_units]>>]

\* Database::apply: the operations of the batch in order.
Database_apply(db, operations) ==
    LET run[i \in 0..Len(operations)] ==
            IF i = 0 THEN [db |-> db, events |-> <<>>]
            ELSE LET prev == run[i - 1]
                     step == ApplyOne(prev.db, operations[i])
                 IN [db |-> step.db, events |-> prev.events \o step.events]
    IN run[Len(operations)]

---------------------------------------------------------------------------
(* The input translation of GuiContext::run *)

\* The closure add_operation of the ModifiersChanged arm.
add_operation(pressed, scancode) ==
    IF pressed THEN KeyPressed(scancode) ELSE KeyReleased(scancode)

\* A variant of ModifierOps that reports only the modifiers whose state differs
\* from the one the tracker holds.
ModifierOps_ChangedOnly(state) ==
    LET op(pressed, scancode) ==
            IF pressed = (scancode \in input_database.keys)
            THEN <<>> ELSE <<add_operation(pressed, scancode)>>
    IN op(state.lshift, SHIFT_LEFT) \o op(state.lcontrol, CONTROL_LEFT)
       \o op(state.lalt, ALT_LEFT) \o op(state.lsuper, LOGO_LEFT)

\* The operations of the ModifiersChanged arm; state.lshift is
\* state.lshift_state() == ModifiersKeyState::Pressed, and so on.
ModifierOps(state) ==
    <<add_operation(state.lshift, SHIFT_LEFT),
      add_operation(state.lcontrol, CONTROL_LEFT),
      add_operation(state.lalt, ALT_LEFT),
      add_operation(state.lsuper, LOGO_LEFT)>>

\* (position / win_size as f64 * buffer_size as f64) as u16, one axis; position
\* is in units of 1 / PosDen.
ScaleCoord(position, win, buf) ==
    F64AsU16(F64Mul(F64Div(position, PosDen, win), buf))

CursorOps(position, win_size, buf_size) ==
    <<MouseMove(ScaleCoord(position[1], win_size[1], buf_size[1]),
                ScaleCoord(position[2], win_size[2], buf_size[2]))>>

\* A variant of AboveEpsilon that compares the signed delta: delta > 0.001.
AboveEpsilon_Signed(delta) == delta * 1000 > DeltaDen

\* delta.abs() > 0.001, for a delta in units of 1 / DeltaDen.
AboveEpsilon(delta) == Abs(delta) * 1000 > DeltaDen

\* (delta * 100.) as i16
LineUnits(delta) == Saturate(TruncDiv(delta * 100, DeltaDen), I16Min, I16Max)

\* delta as i16
PixelUnits(delta) == Saturate(TruncDiv(delta, DeltaDen), I16Min, I16Max)

RotationUnits(enc, delta) ==
    IF enc = "LineDelta" THEN LineUnits(delta) ELSE PixelUnits(delta)

\* The operations of the MouseWheel arm.
WheelOps(delta) ==
    (IF AboveEpsilon(delta.x)
     THEN <<WheelRotations(FALSE, RotationUnits(delta.enc, delta.x))>> ELSE <<>>)
    \o
    (IF AboveEpsilon(delta.y)
     THEN <<WheelRotations(TRUE, RotationUnits(delta.enc, delta.y))>> ELSE <<>>)

\* The button mapping of the MouseInput arm.
MouseButtonOf(button) ==
    CASE button.b = "Left" -> "Left"
      [] button.b = "Right" -> "Right"
      [] button.b = "Middle" -> "Middle"
      [] button.b = "Back" -> "X1"
      [] button.b = "Forward" -> "X2"
      [] button.b = "Other" -> from_native_button(button.code)

\* (window.scale_factor() * 100.0) as u32, for a scale factor in units of
\* 1 / ScaleDen (the upper saturation bound of u32 is out of reach).
ScaleFactorAsU32(scale_factor) == Max(0, TruncDiv(scale_factor * 100, ScaleDen))

---------------------------------------------------------------------------
(* The channel input_event_sender *)

\* UnboundedSender::send: fails when the receiver is gone, enqueues otherwise.
Send(msg) ==
    [ok |-> receiver_alive,
     queue |-> IF receiver_alive THEN Append(queue, msg) ELSE queue,
     tried |-> <<msg>>]

NoSend == [ok |-> TRUE, queue |-> queue, tried |-> <<>>]

\* UnboundedSender::is_closed
is_closed == ~receiver_alive

\* A variant of send_fast_path_events without the emptiness test.
send_fast_path_events_Unguarded(input_events) == Send(FastPathMsg(input_events))

send_fast_path_events(input_events) ==
    IF input_events # <<>> THEN Send(FastPathMsg(input_events)) ELSE NoSend

---------------------------------------------------------------------------
(* The arms of the closure.  Each yields what one invocation does before   *)
(* the closing is_closed check: the operations handed to the tracker, the  *)
(* messages passed to send, the calls of aloop.exit(), the window and      *)
(* surface calls, the diagnostics, and how the arm ends.                   *)

Idle ==
    [ops |-> <<>>, applied |-> 0, batch |-> <<>>, db |-> input_database,
     queue |-> queue, tried |-> <<>>, exits |-> 0, flow |-> "fallthrough",
     effects |-> <<>>, reports |-> <<>>, buffer_size |-> buffer_size,
     surface_size |-> surface_size, cursor_visible |-> window.cursor_visible]

\* input_database.apply(operations) followed by send_fast_path_events.
Forward(operations) ==
    LET result == Database_apply(input_database, operations)
        sending == send_fast_path_events(result.events)
    IN [Idle EXCEPT !.ops = operations, !.applied = 1, !.batch = result.events,
                    !.db = result.db, !.queue = sending.queue,
                    !.tried = sending.tried]

\* A variant of the Resized arm that takes the new window size for the size of
\* the remote surface.
OnResized_SetsBufferSize(size) ==
    IF size[1] > U16Max \/ size[2] > U16Max
    THEN [Idle EXCEPT !.flow = "panic"]
    ELSE LET sending == Send(ResizeMsg(size[1], size[2],
                                       ScaleFactorAsU32(window.scale_factor)))
         IN [Idle EXCEPT !.queue = sending.queue, !.tried = sending.tried,
                         !.buffer_size = size]

OnResized(size) ==
    IF size[1] > U16Max \/ size[2] > U16Max
    THEN [Idle EXCEPT !.flow = "panic"]
    ELSE LET sending == Send(ResizeMsg(size[1], size[2],
                                       ScaleFactorAsU32(window.scale_factor)))
         IN [Idle EXCEPT !.queue = sending.queue, !.tried = sending.tried]

\* A variant of the CloseRequested arm that tests the channel instead of sending
\* Close on it.
OnCloseRequested_SendsNothing ==
    [Idle EXCEPT !.exits = IF is_closed THEN 1 ELSE 0,
                 !.reports = IF is_closed
                             THEN <<"Failed to send graceful shutdown event">>
                             ELSE <<>>]

\* A variant of the CloseRequested arm that exits whatever send returned.
OnCloseRequested_ExitsAlways ==
    LET sending == Send(CloseMsg)
    IN [Idle EXCEPT !.queue = sending.queue, !.tried = sending.tried,
                    !.exits = 1]

OnCloseRequested ==
    LET sending == Send(CloseMsg)
    IN [Idle EXCEPT !.queue = sending.queue, !.tried = sending.tried,
                    !.exits = IF sending.ok THEN 0 ELSE 1,
                    !.reports = IF sending.ok THEN <<>>
                                ELSE <<"Failed to send graceful shutdown event">>]

OnKeyboardInput(physical_key, state) ==
    IF ~physical_key.some THEN Idle
    ELSE IF physical_key.v > U16Max THEN [Idle EXCEPT !.flow = "panic"]
    ELSE LET scancode == Scancode_from_u16(physical_key.v)
         IN Forward(<<IF state = "Pressed" THEN KeyPressed(scancode)
                      ELSE KeyReleased(scancode)>>)

\* A variant of the ModifiersChanged arm that applies and forwards each of the
\* four operations on its own.
OnModifiersChanged_PerModifier(state) ==
    LET operations == ModifierOps(state)
        run[i \in 0..Len(operations)] ==
            IF i = 0 THEN [db |-> input_database, events |-> <<>>, msgs |-> <<>>]
            ELSE LET prev == run[i - 1]
                     step == Database_apply(prev.db, <<operations[i]>>)
                 IN [db |-> step.db,
                     events |-> prev.events \o step.events,
                     msgs |-> prev.msgs \o (IF step.events # <<>>
                                            THEN <<FastPathMsg(step.events)>>
                                            ELSE <<>>)]
        done == run[Len(operations)]
    IN [Idle EXCEPT !.ops = operations, !.applied = Len(operations),
                    !.batch = done.events, !.db = done.db,
                    !.queue = IF receiver_alive THEN queue \o done.msgs ELSE queue,
                    !.tried = done.msgs]

OnModifiersChanged(state) == Forward(ModifierOps(state))

OnCursorMoved(position) ==
    Forward(CursorOps(position, window.inner_size, buffer_size))

OnMouseWheel(delta) == Forward(WheelOps(delta))

\* A variant of the MouseInput arm that takes an unresolvable button for the
\* left one.
OnMouseInput_DefaultsToLeft(state, button) ==
    LET resolved == MouseButtonOf(button)
        mouse_button == IF resolved = NoButton THEN "Left" ELSE resolved
    IN Forward(<<IF state = "Pressed" THEN MouseButtonPressed(mouse_button)
                 ELSE MouseButtonReleased(mouse_button)>>)

OnMouseInput(state, button) ==
    LET mouse_button == MouseButtonOf(button) IN
    IF mouse_button = NoButton THEN [Idle EXCEPT !.flow = "return"]
    ELSE Forward(<<IF state = "Pressed" THEN MouseButtonPressed(mouse_button)
                   ELSE MouseButtonReleased(mouse_button)>>)

\* A variant of the Image arm that presents the surface buffer before it copies
\* the pixels into it.
OnImage_PresentsFirst(image) ==
    LET size == <<image.width, image.height>>
        sized == [Idle EXCEPT !.buffer_size = size]
        resize == <<[call |-> "resize", width |-> image.width, height |-> image.height]>>
    IN IF image.width = 0 \/ image.height = 0 THEN [sized EXCEPT !.flow = "panic"]
       ELSE IF image.fault # "none" \/ image.len # image.width * image.height
       THEN [sized EXCEPT !.flow = "panic", !.effects = resize]
       ELSE [sized EXCEPT !.effects = resize \o <<[call |-> "present"],
                                                 [call |-> "copy_from_slice"]>>,
                          !.surface_size = size]

\* image.fault is the softbuffer call that fails, if any; image.len is the
\* length of the pixel buffer.
OnImage(image) ==
    LET size == <<image.width, image.height>>
        sized == [Idle EXCEPT !.buffer_size = size]
        resize == <<[call |-> "resize", width |-> image.width, height |-> image.height]>>
    IN IF image.width = 0 \/ image.height = 0 THEN [sized EXCEPT !.flow = "panic"]
       ELSE IF image.fault = "resize"
       THEN [sized EXCEPT !.flow = "panic", !.effects = resize]
       ELSE IF image.fault = "buffer_mut" \/ image.len # image.width * image.height
       THEN [sized EXCEPT !.flow = "panic", !.effects = resize,
                          !.surface_size = size]
       ELSE [sized EXCEPT !.effects = resize \o <<[call |-> "copy_from_slice"],
                                                 [call |-> "present"]>>,
                          !.surface_size = size,
                          !.flow = IF image.fault = "present" THEN "panic"
                                   ELSE "fallthrough"]

OnConnectionFailure ==
    [Idle EXCEPT !.reports = <<"Connection error">>, !.exits = 1]

OnTerminated(result) ==
    [Idle EXCEPT !.reports = IF result = "Ok" THEN <<"Terminated gracefully">>
                             ELSE <<"Active session error">>,
                 !.exits = 1]

OnPointerHidden ==
    [Idle EXCEPT !.effects = <<[call |-> "set_cursor_visible", visible |-> FALSE]>>,
                 !.cursor_visible = FALSE]

OnPointerDefault ==
    [Idle EXCEPT !.effects = <<[call |-> "set_cursor_visible", visible |-> TRUE]>>,
                 !.cursor_visible = TRUE]

\* A variant of the PointerPosition arm that exits when the position cannot be
\* set.
OnPointerPosition_FailureExits(pointer) ==
    [Idle EXCEPT !.effects = <<[call |-> "set_cursor_position", x |-> pointer.x,
                                y |-> pointer.y]>>,
                 !.reports = IF pointer.ok THEN <<>>
                             ELSE <<"Failed to set cursor position">>,
                 !.exits = IF pointer.ok THEN 0 ELSE 1]

\* pointer.ok: window.set_cursor_position succeeds.
OnPointerPosition(pointer) ==
    [Idle EXCEPT !.effects = <<[call |-> "set_cursor_position", x |-> pointer.x,
                                y |-> pointer.y]>>,
                 !.reports = IF pointer.ok THEN <<>>
                             ELSE <<"Failed to set cursor position">>]

---------------------------------------------------------------------------
(* One invocation of the closure passed to event_loop.run: the arm for the *)
(* event, then the closing is_closed check unless the arm returned or      *)
(* panicked.  win is the window as the windowing system has it when the    *)
(* event is delivered.                                                     *)

NoEvent == [kind |-> "None"]

Invoke(ev, o, win) ==
    LET tail == IF o.flow = "fallthrough" /\ is_closed THEN 1 ELSE 0 IN
    /\ status = "running"
    /\ Len(queue) < MaxQueue
    /\ status' = IF o.flow = "panic" THEN "panicked" ELSE "running"
    /\ exiting' = (exiting \/ o.exits + tail > 0)
    /\ queue' = o.queue
    /\ buffer_size' = o.buffer_size
    /\ input_database' = o.db
    /\ surface_size' = o.surface_size
    /\ window' = [win EXCEPT !.cursor_visible = o.cursor_visible]
    /\ terminal' = IF terminal = "None"
                         /\ ev.kind \in {"ConnectionFailure", "Terminated"}
                   THEN ev.kind ELSE terminal
    /\ last' = [ev |-> ev, closed |-> is_closed, exiting |-> exiting,
                after |-> terminal,
                ops |-> o.ops, applied |-> o.applied, batch |-> o.batch,
                tried |-> o.tried,
                sent |-> SubSeq(o.queue, Len(queue) + 1, Len(o.queue)),
                exits |-> o.exits + tail, flow |-> o.flow,
                effects |-> o.effects, reports |-> o.reports]
    /\ UNCHANGED <<receiver_alive, released, builderVars>>

Resized(D) ==
    \E size \in D.sizes :
        Invoke([kind |-> "Resized", size |-> size], OnResized(size),
               [window EXCEPT !.inner_size = size])

CloseRequested ==
    Invoke([kind |-> "CloseRequested"], OnCloseRequested, window)

DroppedFile == Invoke([kind |-> "DroppedFile"], Idle, window)

\* A window event the closure has no arm for; it changes the scale factor.
ScaleFactorChanged(D) ==
    \E scale_factor \in D.scales :
        Invoke([kind |-> "ScaleFactorChanged", scale_factor |-> scale_factor],
               Idle, [window EXCEPT !.scale_factor = scale_factor])

\* A window event whose window_id is not window.id().
OtherWindowEvent == Invoke([kind |-> "OtherWindowEvent"], Idle, window)

KeyboardInput(D) ==
    \E physical_key \in D.keys, state \in {"Pressed", "Released"} :
        Invoke([kind |-> "KeyboardInput", physical_key |-> physical_key,
                state |-> state],
               OnKeyboardInput(physical_key, state), window)

ModifiersChanged(D) ==
    \E state \in D.mods :
        Invoke([kind |-> "ModifiersChanged", state |-> state],
               OnModifiersChanged(state), window)

CursorMoved(D) ==
    \E position \in D.positions :
        Invoke([kind |-> "CursorMoved", position |-> position],
               OnCursorMoved(position), window)

MouseWheel(D) ==
    \E delta \in D.deltas :
        Invoke([kind |-> "MouseWheel", delta |-> delta], OnMouseWheel(delta), window)

MouseInput(D) ==
    \E button \in D.buttons, state \in {"Pressed", "Released"} :
        Invoke([kind |-> "MouseInput", state |-> state, button |-> button],
               OnMouseInput(state, button), window)

Image(D) ==
    \E image \in D.images :
        Invoke([kind |-> "Image", image |-> image], OnImage(image), window)

ConnectionFailure ==
    Invoke([kind |-> "ConnectionFailure"], OnConnectionFailure, window)

Terminated ==
    \E result \in {"Ok", "Err"} :
        Invoke([kind |-> "Terminated", result |-> result], OnTerminated(result),
               window)

PointerHidden == Invoke([kind |-> "PointerHidden"], OnPointerHidden, window)

PointerDefault == Invoke([kind |-> "PointerDefault"], OnPointerDefault, window)

PointerPosition(D) ==
    \E pointer \in D.pointers :
        Invoke([kind |-> "PointerPosition", pointer |-> pointer],
               OnPointerPosition(pointer), window)

\* Any event that is neither a window event nor a user event (NewEvents,
\* AboutToWait, LoopExiting, ...).
OtherEvent == Invoke([kind |-> "OtherEvent"], Idle, window)

---------------------------------------------------------------------------
(* The other side of the channel, and the end of run *)

\* The protocol engine receives the oldest message.
Receive ==
    /\ receiver_alive
    /\ queue # <<>>
    /\ queue' = Tail(queue)
    /\ UNCHANGED <<status, exiting, receiver_alive, buffer_size, input_database,
                   window, surface_size, released, terminal, last, builderVars>>

\* The protocol engine drops the receiver; the messages still queued go with it.
DropReceiver ==
    /\ receiver_alive
    /\ receiver_alive' = FALSE
    /\ queue' = <<>>
    /\ UNCHANGED <<status, exiting, buffer_size, input_database, window,
                   surface_size, released, terminal, last, builderVars>>

\* The order in which the values of run go away.  event_loop is moved into
\* EventLoop::run, which owns it and drops it when it returns or unwinds; the
\* locals of run are dropped after that, at the end of run's scope, in reverse
\* order of declaration (buffer_size has no destructor).
DropOrder == <<"event_loop", "input_database", "surface", "context", "window">>

\* EventLoop::run returns after exit() was called, or unwinds after a panic of
\* the closure, and run's values go away in DropOrder.
RunReturns ==
    /\ released = <<>>
    /\ \/ status = "running" /\ exiting
       \/ status = "panicked"
    /\ status' = IF status = "running" THEN "exited" ELSE status
    /\ released' = DropOrder
    /\ UNCHANGED <<exiting, receiver_alive, queue, buffer_size, input_database,
                   window, surface_size, terminal, last, builderVars>>

---------------------------------------------------------------------------
(* Inputs of the event loop *)

Mods(lshift, lcontrol, lalt, lsuper) ==
    [lshift |-> lshift, lcontrol |-> lcontrol, lalt |-> lalt, lsuper |-> lsuper]

Delta(enc, x, y) == [enc |-> enc, x |-> x, y |-> y]

Frame(width, height, len) ==
    [width |-> width, height |-> height, len |-> len, fault |-> "none"]

InitialWindow ==
    [inner_size |-> <<800, 600>>, scale_factor |-> ScaleDen, cursor_visible |-> TRUE]

\* The inputs of the general specification: every arm with a value for each of
\* its outcomes.
BaseInputs ==
    [sizes |-> {<<800, 600>>, <<70000, 600>>},
     scales |-> {ScaleDen, 5},
     keys |-> {NoScancode, SomeScancode(42)},
     mods |-> {Mods(FALSE, FALSE, FALSE, FALSE), Mods(TRUE, FALSE, FALSE, FALSE)},
     positions |-> {<<29 * PosDen, 55 * PosDen>>},
     deltas |-> {Delta("LineDelta", 0, 0), Delta("PixelDelta", 0, 120 * DeltaDen)},
     buttons |-> {[b |-> "Left"], [b |-> "Other", code |-> 7]},
     images |-> {Frame(800, 600, 480000), Frame(0, 600, 0)},
     pointers |-> {[x |-> 10, y |-> 20, ok |-> TRUE],
                   [x |-> 10, y |-> 20, ok |-> FALSE]}]

---------------------------------------------------------------------------
(* RdpServerBuilder: the typestate builder.  A builder value is a record    *)
(* whose field `state` names its type parameter and whose other fields are  *)
(* the fields of that state struct.                                         *)

RdpServerBuilder_new == [state |-> "WantsAddr"]

with_addr(self, addr) == [state |-> "WantsSecurity", addr |-> addr]

with_no_security(self) ==
    [state |-> "WantsHandler", addr |-> self.addr, security |-> [kind |-> "None"]]

with_tls(self, acceptor) ==
    [state |-> "WantsHandler", addr |-> self.addr,
     security |-> [kind |-> "Tls", acceptor |-> acceptor]]

\* A variant of with_input_handler that does not carry the security over.
with_input_handler_ForgetsSecurity(self, handler) ==
    [state |-> "WantsDisplay", addr |-> self.addr, security |-> [kind |-> "None"],
     handler |-> handler]

with_input_handler(self, handler) ==
    [state |-> "WantsDisplay", addr |-> self.addr, security |-> self.security,
     handler |-> handler]

with_no_input(self) ==
    [state |-> "WantsDisplay", addr |-> self.addr, security |-> self.security,
     handler |-> "NoopInputHandler"]

with_display_handler(self, display) ==
    [state |-> "BuilderDone", addr |-> self.addr, security |-> self.security,
     handler |-> self.handler, display |-> display, cliprdr_factory |-> "None"]

with_no_display(self) ==
    [state |-> "BuilderDone", addr |-> self.addr, security |-> self.security,
     handler |-> self.handler, display |-> "NoopDisplay",
     cliprdr_factory |-> "None"]

\* A variant of with_cliprdr_factory that keeps a factory already set.
with_cliprdr_factory_KeepsFirst(self, cliprdr_factory) ==
    IF self.cliprdr_factory = "None"
    THEN [self EXCEPT !.cliprdr_factory = cliprdr_factory]
    ELSE self

with_cliprdr_factory(self, cliprdr_factory) ==
    [self EXCEPT !.cliprdr_factory = cliprdr_factory]

\* build: the arguments it passes to RdpServer::new.
build(self) ==
    [built |-> TRUE,
     opts |-> [addr |-> self.addr, security |-> self.security],
     handler |-> self.handler, display |-> self.display,
     cliprdr_factory |-> self.cliprdr_factory]

\* A variant of Methods in which the WantsHandler state also offers the
\* methods of WantsSecurity.
Methods_SecurityTwice(state) ==
    CASE state = "WantsAddr" -> {"with_addr"}
      [] state = "WantsSecurity" -> {"with_no_security", "with_tls"}
      [] state = "WantsHandler" -> {"with_no_security", "with_tls",
                                    "with_input_handler", "with_no_input"}
      [] state = "WantsDisplay" -> {"with_display_handler", "with_no_display"}
      [] state = "BuilderDone" -> {"with_cliprdr_factory", "build"}
      [] OTHER -> {}

\* The methods the impl block of each state type declares.
Methods(state) ==
    CASE state = "WantsAddr" -> {"with_addr"}
      [] state = "WantsSecurity" -> {"with_no_security", "with_tls"}
      [] state = "WantsHandler" -> {"with_input_handler", "with_no_input"}
      [] state = "WantsDisplay" -> {"with_display_handler", "with_no_display"}
      [] state = "BuilderDone" -> {"with_cliprdr_factory", "build"}
      [] OTHER -> {}

\* A builder that a method took by value is gone.
Moved == [state |-> "Moved"]

\* NoopInputHandler
NoopInputHandler_keyboard(handled, event) == handled
NoopInputHandler_mouse(handled, event) == handled

\* An input handler supplied by the caller: it acts on each event it is given.
SuppliedHandler(handled, event) == handled + 1

\* NoopDisplay::size
NoopDisplay_size == [width |-> 0, height |-> 0]

\* A variant of NoopDisplay::get_update that may resolve.
NoopDisplay_get_update_Resolves == {"Pending", "Ready"}

\* NoopDisplay::get_update awaits std::future::pending(): every poll of it is
\* Pending.
NoopDisplay_get_update == {"Pending"}

\* A display supplied by the caller: it has a size and may produce an update.
SuppliedDisplay_size == [width |-> 1024, height |-> 768]
SuppliedDisplay_get_update == {"Pending", "Ready"}

---------------------------------------------------------------------------
(* Calls of the builder and of the server it builds *)

Call(method, arg, next) ==
    /\ method \in Methods(builder.state)
    /\ builder' = next
    /\ calls' = Append(calls, [method |-> method, arg |-> arg])
    /\ UNCHANGED <<server, inputs_given, handler_state, size_reply, update_poll,
                   guiVars>>

Addrs == {"A1", "A2"}
Acceptors == {"T1"}
Handlers == {"H1"}
Displays == {"D1"}
Factories == {"None", "F1", "F2"}

CallWithAddr == \E addr \in Addrs : Call("with_addr", addr, with_addr(builder, addr))

CallWithNoSecurity == Call("with_no_security", "-", with_no_security(builder))

CallWithTls ==
    \E acceptor \in Acceptors : Call("with_tls", acceptor, with_tls(builder, acceptor))

CallWithInputHandler ==
    \E handler \in Handlers :
        Call("with_input_handler", handler, with_input_handler(builder, handler))

CallWithNoInput == Call("with_no_input", "-", with_no_input(builder))

CallWithDisplayHandler ==
    \E display \in Displays :
        Call("with_display_handler", display, with_display_handler(builder, display))

CallWithNoDisplay == Call("with_no_display", "-", with_no_display(builder))

FactoryCalls == Cardinality({i \in 1..Len(calls) : calls[i].method = "with_cliprdr_factory"})

CallWithCliprdrFactory ==
    /\ FactoryCalls < MaxFactoryCalls
    /\ \E factory \in Factories :
           Call("with_cliprdr_factory", factory, with_cliprdr_factory(builder, factory))

CallBuild ==
    /\ "build" \in Methods(builder.state)
    /\ server' = build(builder)
    /\ builder' = Moved
    /\ calls' = Append(calls, [method |-> "build", arg |-> "-"])
    /\ UNCHANGED <<inputs_given, handler_state, size_reply, update_poll, guiVars>>

\* The server hands a keyboard or mouse event to its input handler.
ServerInput ==
    /\ server.built
    /\ inputs_given < MaxHandled
    /\ inputs_given' = inputs_given + 1
    /\ \E event \in {"keyboard", "mouse"} :
           handler_state' =
               IF server.handler = "NoopInputHandler"
               THEN (IF event = "keyboard"
                     THEN NoopInputHandler_keyboard(handler_state, event)
                     ELSE NoopInputHandler_mouse(handler_state, event))
               ELSE SuppliedHandler(handler_state, event)
    /\ UNCHANGED <<builder, calls, server, size_reply, update_poll, guiVars>>

\* The server asks its display for the desktop size.
ServerSize ==
    /\ server.built
    /\ size_reply' = [asked |-> TRUE,
                      size |-> IF server.display = "NoopDisplay"
                               THEN NoopDisplay_size ELSE SuppliedDisplay_size]
    /\ UNCHANGED <<builder, calls, server, inputs_given, handler_state, update_poll,
                   guiVars>>

\* The server polls display.get_update().
ServerPollUpdate ==
    /\ server.built
    /\ update_poll \in {"NotPolled", "Pending"}
    /\ update_poll' \in (IF server.display = "NoopDisplay"
                         THEN NoopDisplay_get_update
                         ELSE SuppliedDisplay_get_update)
    /\ UNCHANGED <<builder, calls, server, inputs_given, handler_state, size_reply,
                   guiVars>>

\* The inputs for the modifier keys: six combinations of the four modifiers,
\* one value for each other arm.
ModifierInputs ==
    [sizes |-> {<<800, 600>>},
     scales |-> {ScaleDen},
     keys |-> {NoScancode},
     mods |-> {Mods(FALSE, FALSE, FALSE, FALSE), Mods(TRUE, TRUE, TRUE, TRUE),
               Mods(TRUE, FALSE, FALSE, FALSE), Mods(FALSE, TRUE, TRUE, FALSE),
               Mods(FALSE, FALSE, FALSE, TRUE), Mods(TRUE, FALSE, TRUE, TRUE)},
     positions |-> {<<29 * PosDen, 55 * PosDen>>},
     deltas |-> {Delta("LineDelta", 0, 0)},
     buttons |-> {[b |-> "Other", code |-> 7]},
     images |-> {Frame(800, 600, 480000)},
     pointers |-> {[x |-> 10, y |-> 20, ok |-> TRUE]}]

\* A frame for which one softbuffer call fails.
FaultyFrame(width, height, fault) ==
    [Frame(width, height, width * height) EXCEPT !.fault = fault]

\* The inputs for frames: two well-formed frames of different sizes, a frame
\* with a zero width and one with a zero height, a frame for each softbuffer
\* call that can fail, and a frame whose buffer is shorter than width * height;
\* with them a window that may be resized to 0 x 0 (minimised) and cursor
\* positions inside the window, at its origin and outside of it.
ImageInputs ==
    [sizes |-> {<<800, 600>>, <<0, 0>>},
     scales |-> {ScaleDen},
     keys |-> {NoScancode},
     mods |-> {Mods(FALSE, FALSE, FALSE, FALSE)},
     positions |-> {<<29 * PosDen, 55 * PosDen>>, <<0, 0>>, <<-PosDen, 700 * PosDen>>},
     deltas |-> {Delta("LineDelta", 0, 0)},
     buttons |-> {[b |-> "Other", code |-> 7]},
     images |-> {Frame(800, 600, 800 * 600), Frame(640, 480, 640 * 480),
                 Frame(0, 600, 0), Frame(800, 0, 0),
                 FaultyFrame(800, 600, "resize"),
                 FaultyFrame(800, 600, "buffer_mut"),
                 FaultyFrame(800, 600, "present"),
                 Frame(800, 600, 10)},
     pointers |-> {[x |-> 10, y |-> 20, ok |-> TRUE]}]

\* Wheel deltas on one axis, in units of 1 / DeltaDen: zero, just below and
\* just above the epsilon 0.001 with either sign, and a few whole lines or pixels.
AxisDeltas == {0, 1, -1, 2, -2, 3 * DeltaDen, -120 * DeltaDen}

\* The inputs for the wheel: both encodings with every pair of axis deltas.
WheelInputs ==
    [sizes |-> {<<800, 600>>},
     scales |-> {ScaleDen},
     keys |-> {NoScancode},
     mods |-> {Mods(FALSE, FALSE, FALSE, FALSE)},
     positions |-> {<<29 * PosDen, 55 * PosDen>>},
     deltas |-> {Delta(enc, x, y) : enc \in {"LineDelta", "PixelDelta"},
                                    x \in AxisDeltas, y \in AxisDeltas},
     buttons |-> {[b |-> "Other", code |-> 7]},
     images |-> {Frame(800, 600, 480000)},
     pointers |-> {[x |-> 10, y |-> 20, ok |-> TRUE]}]

---------------------------------------------------------------------------
(* Specification of the event loop *)

GuiInit ==
    /\ status = "running"
    /\ exiting = FALSE
    /\ receiver_alive = TRUE
    /\ queue = <<>>
    /\ buffer_size = <<0, 0>>
    /\ input_database = Database_new
    /\ window = InitialWindow
    /\ surface_size = <<0, 0>>
    /\ released = <<>>
    /\ terminal = "None"
    /\ last = [ev |-> NoEvent, closed |-> FALSE, exiting |-> FALSE,
               after |-> "None", ops |-> <<>>,
               applied |-> 0, batch |-> <<>>, tried |-> <<>>, sent |-> <<>>,
               exits |-> 0, flow |-> "fallthrough", effects |-> <<>>,
               reports |-> <<>>]

BuilderInit ==
    /\ builder = RdpServerBuilder_new
    /\ calls = <<>>
    /\ server = [built |-> FALSE]
    /\ inputs_given = 0
    /\ handler_state = 0
    /\ size_reply = [asked |-> FALSE]
    /\ update_poll = "NotPolled"

Init == GuiInit /\ BuilderInit

GuiNext(D) ==
    \/ Resized(D)
    \/ CloseRequested
    \/ DroppedFile
    \/ ScaleFactorChanged(D)
    \/ OtherWindowEvent
    \/ KeyboardInput(D)
    \/ ModifiersChanged(D)
    \/ CursorMoved(D)
    \/ MouseWheel(D)
    \/ MouseInput(D)
    \/ Image(D)
    \/ ConnectionFailure
    \/ Terminated
    \/ PointerHidden
    \/ PointerDefault
    \/ PointerPosition(D)
    \/ OtherEvent
    \/ Receive
    \/ DropReceiver
    \/ RunReturns

Next == GuiNext(BaseInputs)

Spec == Init /\ [][Next]_vars

\* The event loop with every combination of modifier keys.
ModifierSpec == Init /\ [][GuiNext(ModifierInputs)]_vars

\* The event loop with wheel deltas around the epsilon.
WheelSpec == Init /\ [][GuiNext(WheelInputs)]_vars

\* The event loop with the frames of ImageInputs.
ImageSpec == Init /\ [][GuiNext(ImageInputs)]_vars

---------------------------------------------------------------------------
(* Specification of the builder *)

BuilderNext ==
    \/ CallWithAddr
    \/ CallWithNoSecurity
    \/ CallWithTls
    \/ CallWithInputHandler
    \/ CallWithNoInput
    \/ CallWithDisplayHandler
    \/ CallWithNoDisplay
    \/ CallWithCliprdrFactory
    \/ CallBuild
    \/ ServerInput
    \/ ServerSize
    \/ ServerPollUpdate

BuilderSpec == Init /\ [][BuilderNext]_vars


---------------------------------------------------------------------------
(* Properties of the event loop.  `last` describes the latest invocation of *)
(* the closure; every invocation is the latest one in the state it leads    *)
(* to, so an invariant about `last` speaks about every invocation.          *)

Invoked == last.ev.kind # "None"

\* C1: an invocation of the closure that starts after the receiver of the
\* input-event channel was dropped requests loop exit, whatever event it
\* handles (stated for the invocations that run to their end without panicking).
C1_ExitOnceReceiverDropped ==
    (Invoked /\ last.closed /\ last.flow # "panic") => last.exits >= 1

\* The position of a value of run in the order of release.
ReleasedAt(resource) == CHOOSE i \in 1..Len(released) : released[i] = resource

\* C2: once run has returned, its resources were released in the order surface,
\* context, event loop: the context before the event loop, the surface no later
\* than the context.
C2_ReleaseOrder ==
    status = "exited" =>
        /\ ReleasedAt("surface") < ReleasedAt("context")
        /\ ReleasedAt("context") < ReleasedAt("event_loop")

\* C3: the invocation that handles Terminated calls exit exactly once, and an
\* invocation delivered after it processes nothing: it hands nothing to the
\* tracker, passes no message to send and makes no window or surface call.
C3_TerminatedExitsOnceAndStops ==
    /\ last.ev.kind = "Terminated" => last.exits = 1
    /\ last.after = "Terminated" =>
           /\ last.applied = 0
           /\ last.tried = <<>>
           /\ last.effects = <<>>

\* C4: exit is requested only by an invocation that saw the channel closed (a
\* failed send of Close, or is_closed at its end) or that handled
\* ConnectionFailure or Terminated; a close request whose Close message was
\* sent does not request exit.
C4_ExitOnlyWhenClosedOrTerminal ==
    /\ last.exits > 0 =>
           \/ last.closed
           \/ last.ev.kind \in {"ConnectionFailure", "Terminated"}
    /\ (last.ev.kind = "CloseRequested" /\ last.sent = <<CloseMsg>>) =>
           last.exits = 0
    /\ exiting => (terminal # "None" \/ is_closed)

C4_Witness ==
    /\ last.ev.kind = "CloseRequested"
    /\ last.sent = <<CloseMsg>>
    /\ ~exiting
    /\ status = "running"

\* C5: no FastPath message with an empty event sequence is passed to send or
\* is in the channel, and an invocation whose tracker call returned an empty
\* batch passes no message to send.
C5_NoEmptyFastPath ==
    /\ \A i \in 1..Len(queue) :
           queue[i].type = "FastPath" => queue[i].events # <<>>
    /\ \A i \in 1..Len(last.tried) :
           last.tried[i].type = "FastPath" => last.tried[i].events # <<>>
    /\ (last.applied = 1 /\ last.batch = <<>>) => last.tried = <<>>

C5_Witness ==
    /\ last.ev.kind = "KeyboardInput"
    /\ last.applied = 1
    /\ last.batch = <<>>
    /\ ~last.closed

\* C8: a cursor move handled while the window inner size equals the remote
\* surface size emits MouseMove with the reported coordinates truncated to
\* integers.
C8_IdentityScaleIsExact ==
    (last.ev.kind = "CursorMoved" /\ window.inner_size = buffer_size) =>
        last.ops = <<MouseMove(TruncDiv(last.ev.position[1], PosDen),
                               TruncDiv(last.ev.position[2], PosDen))>>

\* The operation expected for a modifier key with the given scancode.
ModifierOp(pressed, extended, code) ==
    [op |-> IF pressed THEN "KeyPressed" ELSE "KeyReleased",
     scancode |-> [extended |-> extended, code |-> code]]

\* C6: a modifiers-changed event hands the tracker one batch of exactly four
\* operations, for left shift, left control, left alt and left logo in that
\* order: KeyPressed if the modifier is reported pressed, KeyReleased if not,
\* whatever the tracker remembers from earlier events.
C6_FourModifierOperations ==
    last.ev.kind = "ModifiersChanged" =>
        /\ last.applied = 1
        /\ last.ops = <<ModifierOp(last.ev.state.lshift, FALSE, 42),
                        ModifierOp(last.ev.state.lcontrol, FALSE, 29),
                        ModifierOp(last.ev.state.lalt, FALSE, 56),
                        ModifierOp(last.ev.state.lsuper, TRUE, 91)>>

\* All four modifiers reported pressed while the tracker already has them
\* pressed: the batch holds a release and a press for each.
C6_Witness ==
    /\ last.ev.kind = "ModifiersChanged"
    /\ last.ev.state = Mods(TRUE, TRUE, TRUE, TRUE)
    /\ Len(last.batch) = 8

\* The number of rotations on one axis among the operations.
Rotations(ops, is_vertical) ==
    Cardinality({i \in 1..Len(ops) :
                    ops[i].op = "WheelRotations" /\ ops[i].is_vertical = is_vertical})

\* C7: a mouse-wheel event, in either encoding, hands the tracker no rotation
\* for an axis whose delta has magnitude <= 0.001 and exactly one rotation for
\* an axis whose delta has magnitude > 0.001 (horizontal for x, vertical for y).
C7_OneRotationPerAxisAboveEpsilon ==
    last.ev.kind = "MouseWheel" =>
        LET delta == last.ev.delta IN
        /\ last.applied = 1
        /\ Rotations(last.ops, FALSE) = IF Abs(delta.x) * 1000 > DeltaDen THEN 1 ELSE 0
        /\ Rotations(last.ops, TRUE) = IF Abs(delta.y) * 1000 > DeltaDen THEN 1 ELSE 0
        /\ Len(last.ops) = Rotations(last.ops, FALSE) + Rotations(last.ops, TRUE)

\* A line delta with x above the epsilon (negative) and y below it.
C7_Witness ==
    /\ last.ev.kind = "MouseWheel"
    /\ last.ev.delta = Delta("LineDelta", -2, 1)
    /\ Len(last.ops) = 1
    /\ ~last.ops[1].is_vertical

---------------------------------------------------------------------------
(* Properties of RdpServerBuilder *)

\* The position of a method in the builder's order of transitions.
Phase(method) ==
    CASE method = "with_addr" -> 1
      [] method \in {"with_no_security", "with_tls"} -> 2
      [] method \in {"with_input_handler", "with_no_input"} -> 3
      [] method \in {"with_display_handler", "with_no_display"} -> 4
      [] method = "with_cliprdr_factory" -> 5
      [] method = "build" -> 6

CallPhase(i) == Phase(calls[i].method)

\* C9: the calls made on a builder follow the fixed order with_addr, a security
\* method, an input method, a display method, any number of
\* with_cliprdr_factory, build: the first call is with_addr, each later call is
\* the next step of the one before it (with_cliprdr_factory may follow itself and
\* may be left out), nothing follows build, the state of the builder is the one
\* its last call leads to, and a server exists only when the last call was build,
\* made from BuilderDone.
C9_FixedTransitionOrder ==
    LET n == Len(calls)
        StateAfter(phase) ==
            CASE phase = 0 -> "WantsAddr"
              [] phase = 1 -> "WantsSecurity"
              [] phase = 2 -> "WantsHandler"
              [] phase = 3 -> "WantsDisplay"
              [] phase \in {4, 5} -> "BuilderDone"
              [] phase = 6 -> "Moved"
    IN /\ n > 0 => CallPhase(1) = 1
       /\ \A i \in 1..(n - 1) :
              \/ CallPhase(i + 1) = CallPhase(i) + 1
              \/ CallPhase(i) = 5 /\ CallPhase(i + 1) = 5
              \/ CallPhase(i) = 4 /\ CallPhase(i + 1) = 6
       /\ builder.state = StateAfter(IF n = 0 THEN 0 ELSE CallPhase(n))
       /\ server.built <=> (n > 0 /\ CallPhase(n) = 6)

\* A server built after two calls of with_cliprdr_factory.
C9_Witness ==
    /\ server.built
    /\ Len(calls) = 7
    /\ CallPhase(5) = 5 /\ CallPhase(6) = 5

CalledMethods == [i \in 1..Len(calls) |-> calls[i].method]

NoopSequence ==
    <<"with_addr", "with_no_security", "with_no_input", "with_no_display", "build">>

\* C10: after new().with_addr(A).with_no_security().with_no_input()
\* .with_no_display().build() there is a server with address A, security None
\* and no clipboard factory; no keyboard or mouse event changes anything in its
\* input handler; its display answers size() with 0 x 0 and no poll of
\* get_update() yields a value.
C10_NoopServer ==
    CalledMethods = NoopSequence =>
        /\ server.built
        /\ server.opts.addr = calls[1].arg
        /\ server.opts.security = [kind |-> "None"]
        /\ server.cliprdr_factory = "None"
        /\ handler_state = 0
        /\ size_reply.asked => size_reply.size = [width |-> 0, height |-> 0]
        /\ update_poll \in {"NotPolled", "Pending"}

\* The server of that sequence after its handler was given events and its
\* display was asked for its size and polled for an update.
C10_Witness ==
    /\ CalledMethods = NoopSequence
    /\ inputs_given = MaxHandled
    /\ size_reply.asked
    /\ update_poll = "Pending"

\* The argument of the latest call of with_cliprdr_factory, None when there was
\* no such call.
LastFactoryArg ==
    LET made == {i \in 1..Len(calls) : calls[i].method = "with_cliprdr_factory"}
    IN IF made = {} THEN "None"
       ELSE calls[CHOOSE i \in made : \A j \in made : j <= i].arg

\* C11: with_cliprdr_factory is called only on a builder in the Done state (after
\* a display method or another with_cliprdr_factory); the factory the Done
\* builder holds, and the one build passes on, is the argument of the latest
\* call; and calling it twice with one value gives the builder one call gives.
C11_FactoryOverwrites ==
    /\ \A i \in 1..Len(calls) :
           calls[i].method = "with_cliprdr_factory" =>
               i > 4 /\ CallPhase(i - 1) \in {4, 5}
    /\ builder.state = "BuilderDone" =>
           /\ builder.cliprdr_factory = LastFactoryArg
           /\ \A f \in Factories :
                  with_cliprdr_factory(with_cliprdr_factory(builder, f), f)
                      = with_cliprdr_factory(builder, f)
    /\ server.built => server.cliprdr_factory = LastFactoryArg

\* A server built after with_cliprdr_factory(F1) followed by
\* with_cliprdr_factory(None).
C11_Witness ==
    /\ server.built
    /\ Len(calls) = 7
    /\ calls[5] = [method |-> "with_cliprdr_factory", arg |-> "F1"]
    /\ calls[6] = [method |-> "with_cliprdr_factory", arg |-> "None"]
    /\ server.cliprdr_factory = "None"

---------------------------------------------------------------------------
(* Properties of the output dispatcher *)

\* The surface calls that draw a frame of the given size.
DrawCalls(width, height) ==
    <<[call |-> "resize", width |-> width, height |-> height],
      [call |-> "copy_from_slice"], [call |-> "present"]>>

\* A frame whose buffer has width * height pixels and for which every softbuffer
\* call succeeds.
Drawable(image) ==
    image.fault = "none" /\ image.len = image.width * image.height

\* C12 as stated: every Image with positive width and height makes the calls
\* resize(width, height), copy, present, in that order and nothing else; an
\* Image with a zero width or height panics and draws nothing.
C12_EveryImageIsDrawn ==
    last.ev.kind = "Image" =>
        LET image == last.ev.image IN
        IF image.width > 0 /\ image.height > 0
        THEN /\ last.effects = DrawCalls(image.width, image.height)
             /\ last.flow # "panic"
             /\ last.tried = <<>> /\ last.applied = 0
        ELSE last.flow = "panic" /\ last.effects = <<>>

\* C12, what the arm does: an Image with positive width and height whose
\* buffer has width * height pixels and whose surface calls succeed makes the calls
\* resize(width, height), copy, present, in that order and nothing else; when a
\* surface call fails or the buffer has another length the invocation panics
\* after the calls made so far, which are the first of those three; an Image
\* with a zero width or height panics before any surface call.
C12_ImageDrawsInOrder ==
    last.ev.kind = "Image" =>
        LET image == last.ev.image
            draw == DrawCalls(image.width, image.height)
        IN /\ last.tried = <<>> /\ last.applied = 0
           /\ IF image.width > 0 /\ image.height > 0
              THEN /\ Len(last.effects) \in 1..3
                   /\ last.effects = SubSeq(draw, 1, Len(last.effects))
                   /\ Drawable(image) <=> last.flow = "fallthrough"
                   /\ Drawable(image) => last.effects = draw
                   /\ ~Drawable(image) => last.flow = "panic"
              ELSE last.flow = "panic" /\ last.effects = <<>>

\* A second frame, of another size than the first, drawn.
C12_Witness ==
    /\ last.ev.kind = "Image"
    /\ last.ev.image = Frame(640, 480, 640 * 480)
    /\ surface_size = <<640, 480>>
    /\ Len(last.effects) = 3
    /\ status = "running"

\* C13: the invocation that handles ConnectionFailure reports the error and
\* calls exit, and an invocation delivered after it processes nothing: it hands
\* nothing to the tracker, passes no message to send and makes no window or
\* surface call.
C13_ConnectionFailureIsTerminal ==
    /\ last.ev.kind = "ConnectionFailure" =>
           /\ last.reports = <<"Connection error">>
           /\ last.exits >= 1
    /\ last.after = "ConnectionFailure" =>
           /\ last.applied = 0
           /\ last.tried = <<>>
           /\ last.effects = <<>>

\* C14: a close request handled when the receiver is gone passes Close to send,
\* which fails, reports it and calls exit in that invocation; handled while the
\* receiver is alive it enqueues one Close message and calls no exit, so the
\* loop is exiting afterwards only if it already was.
C14_CloseRequest ==
    last.ev.kind = "CloseRequested" =>
        /\ last.tried = <<CloseMsg>>
        /\ IF last.closed
           THEN /\ last.sent = <<>>
                /\ last.exits >= 1
                /\ last.reports = <<"Failed to send graceful shutdown event">>
                /\ exiting
           ELSE /\ last.sent = <<CloseMsg>>
                /\ last.exits = 0
                /\ last.reports = <<>>
                /\ exiting = last.exiting

\* A close request handled after the receiver was dropped.
C14_Witness ==
    /\ last.ev.kind = "CloseRequested"
    /\ last.closed
    /\ ~last.exiting
    /\ exiting

---------------------------------------------------------------------------
(* Properties of the input translation *)

\* A keyboard event whose physical key has no scancode, or a mouse-button event
\* whose Other code from_native_button does not resolve.
Unmappable(ev) ==
    \/ ev.kind = "KeyboardInput" /\ ~ev.physical_key.some
    \/ /\ ev.kind = "MouseInput"
       /\ ev.button.b = "Other"
       /\ from_native_button(ev.button.code) = NoButton

\* C15: an invocation for an unmappable keyboard or mouse-button event hands no
\* operation to the tracker, passes no message to send, leaves the tracker as
\* it was, does not panic and, when the channel is open, calls no exit.
C15_UnmappableInputDropped ==
    [][Unmappable(last'.ev) =>
          /\ last'.applied = 0 /\ last'.ops = <<>>
          /\ last'.tried = <<>> /\ last'.sent = <<>>
          /\ input_database' = input_database
          /\ last'.flow # "panic"
          /\ ~last'.closed => (last'.exits = 0 /\ exiting' = exiting)]_vars

\* An unresolvable mouse button handled, with the channel open, while the
\* tracker holds a pressed button.
C15_Witness ==
    /\ last.ev.kind = "MouseInput"
    /\ Unmappable(last.ev)
    /\ ~last.closed
    /\ input_database.buttons # {}
    /\ status = "running"

\* C16: an invocation for PointerPosition makes the one call
\* set_cursor_position(x, y); when the call fails it reports the failure and
\* nothing more: it passes no message to send, hands nothing to the tracker,
\* does not panic, and calls exit only for a closed channel, so with the channel
\* open the loop is exiting afterwards only if it already was.
C16_PointerPositionFailureIsNotFatal ==
    last.ev.kind = "PointerPosition" =>
        /\ last.effects = <<[call |-> "set_cursor_position",
                             x |-> last.ev.pointer.x, y |-> last.ev.pointer.y]>>
        /\ last.reports = IF last.ev.pointer.ok THEN <<>>
                          ELSE <<"Failed to set cursor position">>
        /\ last.tried = <<>> /\ last.applied = 0
        /\ last.flow = "fallthrough"
        /\ last.exits = IF last.closed THEN 1 ELSE 0
        /\ ~last.closed => exiting = last.exiting
        /\ (~last.closed /\ ~last.exiting) => status = "running"

\* A failed set_cursor_position with the channel open and the loop not exiting.
C16_Witness ==
    /\ last.ev.kind = "PointerPosition"
    /\ ~last.ev.pointer.ok
    /\ ~last.closed
    /\ ~exiting
    /\ status = "running"

\* C17: every rotation a mouse-wheel event hands to the tracker has rotation
\* units other than zero, for line deltas (delta * 100 as i16) and for pixel
\* deltas (delta as i16).
C17_NoZeroRotation ==
    last.ev.kind = "MouseWheel" =>
        \A i \in 1..Len(last.ops) :
            last.ops[i].op = "WheelRotations" => last.ops[i].rotation_units # 0

\* C18: an invocation for a window resize, whatever the new width and height,
\* does not panic and passes to send exactly one Resize message with that width
\* and height, scale_factor the window scale factor times 100 truncated, and no
\* physical_size.
C18_ResizeNeverPanics ==
    last.ev.kind = "Resized" =>
        /\ last.flow # "panic"
        /\ last.tried = <<ResizeMsg(last.ev.size[1], last.ev.size[2],
                                    TruncDiv(window.scale_factor * 100, ScaleDen))>>
        /\ ~last.closed => last.sent = last.tried

\* What a call of a builder method chose.
Chosen(call) ==
    CASE call.method = "with_no_security" -> [kind |-> "None"]
      [] call.method = "with_tls" -> [kind |-> "Tls", acceptor |-> call.arg]
      [] call.method = "with_no_input" -> "NoopInputHandler"
      [] call.method = "with_no_display" -> "NoopDisplay"
      [] OTHER -> call.arg

\* The fields of each state struct.
FieldsOf(state) ==
    CASE state = "WantsAddr" -> {"state"}
      [] state = "WantsSecurity" -> {"state", "addr"}
      [] state = "WantsHandler" -> {"state", "addr", "security"}
      [] state = "WantsDisplay" -> {"state", "addr", "security", "handler"}
      [] state = "BuilderDone" -> {"state", "addr", "security", "handler",
                                   "display", "cliprdr_factory"}
      [] state = "Moved" -> {"state"}

\* C19: a builder holds exactly the fields of its state, each with the value
\* chosen by the call that set it: the address of with_addr, the security of
\* with_no_security or with_tls, the handler of with_input_handler or
\* with_no_input, the display of with_display_handler or with_no_display, and
\* the factory of the latest with_cliprdr_factory (none when it was never
\* called); build passes exactly these values to the server.
C19_FieldsCarriedForward ==
    LET fields == DOMAIN builder IN
    /\ fields = FieldsOf(builder.state)
    /\ "addr" \in fields => builder.addr = Chosen(calls[1])
    /\ "security" \in fields => builder.security = Chosen(calls[2])
    /\ "handler" \in fields => builder.handler = Chosen(calls[3])
    /\ "display" \in fields => builder.display = Chosen(calls[4])
    /\ "cliprdr_factory" \in fields => builder.cliprdr_factory = LastFactoryArg
    /\ server.built =>
           server = [built |-> TRUE,
                     opts |-> [addr |-> Chosen(calls[1]),
                               security |-> Chosen(calls[2])],
                     handler |-> Chosen(calls[3]),
                     display |-> Chosen(calls[4]),
                     cliprdr_factory |-> LastFactoryArg]

\* A server built with TLS, a supplied handler and display, and a factory.
C19_Witness ==
    /\ server.built
    /\ server.opts = [addr |-> "A2", security |-> [kind |-> "Tls", acceptor |-> "T1"]]
    /\ server.handler = "H1"
    /\ server.display = "D1"
    /\ server.cliprdr_factory = "F2"

\* C20: buffer_size is (0, 0) when run starts; a step changes it only by
\* handling an Image, to the width and height of that Image; after an Image
\* was handled it is the width and height of that Image until the next
\* invocation; and a cursor move handled while it is (0, 0) hands the tracker
\* MouseMove(0, 0).
C20_BufferSizeFollowsImages ==
    /\ buffer_size = <<0, 0>>
    /\ [][buffer_size' # buffer_size =>
             /\ last'.ev.kind = "Image"
             /\ buffer_size' = <<last'.ev.image.width, last'.ev.image.height>>]_vars
    /\ [](last.ev.kind = "Image" =>
             buffer_size = <<last.ev.image.width, last.ev.image.height>>)
    /\ []((last.ev.kind = "CursorMoved" /\ buffer_size = <<0, 0>>) =>
             last.ops = <<MouseMove(0, 0)>>)

\* A cursor move at a position other than the origin handled before any Image.
C20_Witness ==
    /\ last.ev.kind = "CursorMoved"
    /\ last.ev.position = <<29 * PosDen, 55 * PosDen>>
    /\ buffer_size = <<0, 0>>
    /\ surface_size = <<0, 0>>
    /\ window.inner_size = <<800, 600>>
    /\ last.ops = <<MouseMove(0, 0)>>

---------------------------------------------------------------------------
(* Properties of one invocation *)

\* The events the closure has no input translation for: the protocol output
\* events, a window event for another window, a window event without an arm,
\* and the events that are neither.
Untranslated ==
    {"Image", "ConnectionFailure", "Terminated", "PointerHidden", "PointerDefault",
     "PointerPosition", "OtherWindowEvent", "DroppedFile", "ScaleFactorChanged",
     "OtherEvent"}

\* C21: an invocation passes at most one message to send and calls the tracker
\* at most once, with all the operations of its event in that one batch, and a
\* FastPath message it sends carries the whole batch the tracker returned; an
\* invocation for a protocol output event, for a window event of another
\* window or for a window event without an arm passes no message to send and
\* does not call the tracker.
C21_OneBatchOneMessage ==
    /\ Len(last.tried) <= 1
    /\ Len(last.sent) <= 1
    /\ last.applied <= 1
    /\ last.applied = 0 => (last.ops = <<>> /\ last.batch = <<>>)
    /\ \A i \in 1..Len(last.tried) :
           last.tried[i].type = "FastPath" =>
               (last.applied = 1 /\ last.tried[i].events = last.batch)
    /\ last.ev.kind \in Untranslated =>
           (last.tried = <<>> /\ last.sent = <<>> /\ last.applied = 0)

\* A modifiers-changed event that hands four operations to the tracker in one
\* call and sends one message with the resulting batch.
C21_Witness ==
    /\ last.ev.kind = "ModifiersChanged"
    /\ Len(last.ops) = 4
    /\ last.applied = 1
    /\ last.batch # <<>>
    /\ last.sent = <<FastPathMsg(last.batch)>>

====
